---- MODULE Spec2Model ----
(***************************************************************************)
(* ITMDepthTracker (InfiniTAM/ITMLib/Trackers/Interface/ITMDepthTracker.cpp) *)
(*                                                                         *)
(* Number representation.  The tracker works on C floats; the model keeps   *)
(* them exact:                                                              *)
(*   - iteration counts are Int;                                            *)
(*   - distance thresholds and errors are counted in units of 1e-4; a       *)
(*     per-level distance threshold is the numerator of a fraction whose    *)
(*     denominator is noHierarchyLevels - 1 (the divisor of `step`);        *)
(*   - a float that may be NaN or infinite is a triple <<kind, a, b>>;      *)
(*   - a determinant is kept by its natural logarithm, in 1/1000;           *)
(*   - lambda is the fraction num/den of two powers of ten;                 *)
(*   - a pose is a one-parameter rigid motion (an Int), its inverse matrix  *)
(*     the negated parameter, composition the sum.                          *)
(***************************************************************************)
EXTENDS Integers, Sequences, FiniteSets, TLC

VARIABLES
    \* ---- ITMDepthTracker fields
    noHierarchyLevels,      \* viewHierarchy->noLevels
    trackingRegime,         \* viewHierarchy->levels[i]->iterationType
    noIterationsPerLevel,   \* int[noHierarchyLevels]
    distThresh,             \* float[noHierarchyLevels] (numerators, see above)
    terminationThreshold,
    iterationType,          \* this->iterationType, set by SetEvaluationParams
    \* ---- caller-owned ITMTrackingState
    pose_d,                 \* trackingState->pose_d
    poseQuality,            \* trackingState->poseQuality, in tenths
    \* ---- locals of TrackCamera
    pc,
    levelId,
    iterNo,
    approxInvPose,
    lastKnownGoodPose,
    f_old, f_new,
    noValidPoints_old, noValidPoints_new,
    hessian_good, hessian_new,
    nabla_good, nabla_new,
    lambda,
    noValidPointsMax,
    det_norm,
    finalResidual,
    percentageInliers,
    \* ---- history of the call (read by the properties only)
    hist

vars == <<noHierarchyLevels, trackingRegime, noIterationsPerLevel, distThresh,
          terminationThreshold, iterationType, pose_d, poseQuality, pc, levelId,
          iterNo, approxInvPose, lastKnownGoodPose, f_old, f_new,
          noValidPoints_old, noValidPoints_new, hessian_good, hessian_new,
          nabla_good, nabla_new, lambda, noValidPointsMax, det_norm,
          finalResidual, percentageInliers, hist>>

scheduleVars == <<noIterationsPerLevel, distThresh>>

configVars == <<noHierarchyLevels, trackingRegime, terminationThreshold>>

localVars == <<iterationType, pose_d, poseQuality, pc, levelId,
               iterNo, approxInvPose, lastKnownGoodPose, f_old, f_new,
               noValidPoints_old, noValidPoints_new, hessian_good, hessian_new,
               nabla_good, nabla_new, lambda, noValidPointsMax, det_norm,
               finalResidual, percentageInliers>>

(***************************************************************************)
(* Bounds of the model                                                     *)
(***************************************************************************)
\* SetupLevels is explored for 2..MaxLevels hierarchy levels
MaxLevels == 5
\* and for iteration endpoints -2..MaxIterArg
MaxIterArg == 10
\* TrackCamera is explored for the schedules SetupLevels(c, f, ..) leaves with
\* c, f >= 0 and c + f <= MaxTotalIter
MaxTotalIter == 2
\* the frame holds at most MaxPoints valid depth samples
MaxPoints == 2
\* a non-zero solver step has magnitude StepMag
StepMag == 7

(***************************************************************************)
(* Program constants                                                       *)
(***************************************************************************)
TRACKER_ITERATION_ROTATION == "ROTATION"
TRACKER_ITERATION_TRANSLATION == "TRANSLATION"
TRACKER_ITERATION_BOTH == "BOTH"
TRACKER_ITERATION_NONE == "NONE"

IterationTypes == {TRACKER_ITERATION_ROTATION, TRACKER_ITERATION_TRANSLATION,
                   TRACKER_ITERATION_BOTH, TRACKER_ITERATION_NONE}

\* the constructor's SetupLevels(noHierarchyLevels*2, 2, 0.01f, 0.002f)
CtorIterFine == 2
CtorDistCoarse == 100
CtorDistFine == 20

Levels(L) == 0 .. (L - 1)

(***************************************************************************)
(* SetupLevels                                                             *)
(***************************************************************************)
\* C round(): to the nearest integer, halves away from zero; the argument is
\* num/den with den > 0
Round(num, den) ==
    IF num >= 0 THEN (2 * num + den) \div (2 * den)
    ELSE 0 - ((2 * (0 - num) + den) \div (2 * den))

\* for (levelId = L-1; levelId >= 0; levelId--) { arr[levelId] = (int)round(val); val -= step; }
\* val = valNum/den, step = stepNum/den
RECURSIVE IterLoop(_, _, _, _, _)
IterLoop(arr, lvl, valNum, stepNum, den) ==
    IF lvl < 0 THEN arr
    ELSE IterLoop([arr EXCEPT ![lvl] = Round(valNum, den)], lvl - 1,
                  valNum - stepNum, stepNum, den)

\* for (levelId = L-1; levelId >= 0; levelId--) { arr[levelId] = val; val -= step; }
RECURSIVE DistLoop(_, _, _, _)
DistLoop(arr, lvl, valNum, stepNum) ==
    IF lvl < 0 THEN arr
    ELSE DistLoop([arr EXCEPT ![lvl] = valNum], lvl - 1, valNum - stepNum, stepNum)

IterGuard(numIterCoarse, numIterFine) ==
    (numIterCoarse # -1) /\ (numIterFine # -1)

DistGuard(distThreshCoarse, distThreshFine) ==
    (distThreshCoarse >= 0) /\ (distThreshFine >= 0)

\* variant: step = (coarse - fine) / noHierarchyLevels
NewIterationsStepOverLevels(old, L, numIterCoarse, numIterFine) ==
    IF IterGuard(numIterCoarse, numIterFine)
    THEN IterLoop(old, L - 1, numIterCoarse * L, numIterCoarse - numIterFine, L)
    ELSE old

NewIterations(old, L, numIterCoarse, numIterFine) ==
    IF IterGuard(numIterCoarse, numIterFine)
    THEN IterLoop(old, L - 1, numIterCoarse * (L - 1),
                  numIterCoarse - numIterFine, L - 1)
    ELSE old

NewDistThresh(old, L, distThreshCoarse, distThreshFine) ==
    IF DistGuard(distThreshCoarse, distThreshFine)
    THEN DistLoop(old, L - 1, distThreshCoarse * (L - 1),
                  distThreshCoarse - distThreshFine)
    ELSE old

\* lines 35-55; the arguments are those recorded for the call in hist.setupArgs
SetupLevels(numIterCoarse, numIterFine, distThreshCoarse, distThreshFine) ==
    /\ pc = "idle"
    /\ ~hist.setupDone
    /\ hist.setupArgs =
          <<numIterCoarse, numIterFine, distThreshCoarse, distThreshFine>>
    /\ noIterationsPerLevel' =
          NewIterations(noIterationsPerLevel, noHierarchyLevels,
                        numIterCoarse, numIterFine)
    /\ distThresh' =
          NewDistThresh(distThresh, noHierarchyLevels,
                        distThreshCoarse, distThreshFine)
    /\ hist' = [hist EXCEPT !.setupDone = TRUE]
    /\ UNCHANGED <<configVars, localVars>>

(***************************************************************************)
(* Floats: <<kind, a, b>>                                                  *)
(*   "fin"  the rational a/b, b > 0        "big"  10^a (1e10f, 1e20f)      *)
(*   "inf"  +infinity                      "nan"  not a number             *)
(*   "ln"   e^(a/1000), a determinant      "zero" the determinant 0        *)
(***************************************************************************)
Fin(a, b) == <<"fin", a, b>>
Big(e) == <<"big", e, 1>>
PosInf == <<"inf", 0, 1>>
NaN == <<"nan", 0, 1>>
DetLn(v) == <<"ln", v, 1>>
DetZero == <<"zero", 0, 1>>

KindRank(x) ==
    CASE x[1] = "zero" -> 0
      [] x[1] = "ln" -> 1
      [] x[1] = "fin" -> 2
      [] x[1] = "big" -> 3
      [] x[1] = "inf" -> 4
      [] OTHER -> 5

\* a < b on floats; every comparison with NaN is false.  "fin" and the
\* determinant kinds are never compared with each other.
LtF(a, b) ==
    /\ a[1] # "nan"
    /\ b[1] # "nan"
    /\ \/ KindRank(a) < KindRank(b)
       \/ /\ a[1] = b[1]
          /\ CASE a[1] = "fin" -> a[2] * b[3] < b[2] * a[3]
               [] a[1] = "big" -> a[2] < b[2]
               [] a[1] = "ln" -> a[2] < b[2]
               [] OTHER -> FALSE

GtF(a, b) == LtF(b, a)

\* (float)num / (float)den of two ints, num >= 0
DivF(num, den) ==
    IF den # 0 THEN Fin(num, den)
    ELSE IF num = 0 THEN NaN ELSE PosInf

\* floor of the square root of n >= 0, by bisection: lo * lo <= n < hi * hi
RECURSIVE ISqrtBetween(_, _, _)
ISqrtBetween(n, lo, hi) ==
    IF hi - lo <= 1 THEN lo
    ELSE LET mid == (lo + hi) \div 2
         IN IF mid * mid <= n THEN ISqrtBetween(n, mid, hi)
            ELSE ISqrtBetween(n, lo, mid)

ISqrt(n) == ISqrtBetween(n, 0, IF n < 46340 THEN n + 1 ELSE 46340)

\* natural logarithm of n >= 1 in 1/1000, from the logarithms of the primes
RECURSIVE LnMilli(_)
LnMilli(n) ==
    IF n <= 1 THEN 0
    ELSE IF n % 2 = 0 THEN 693 + LnMilli(n \div 2)
    ELSE IF n % 3 = 0 THEN 1099 + LnMilli(n \div 3)
    ELSE IF n % 5 = 0 THEN 1609 + LnMilli(n \div 5)
    ELSE IF n % 7 = 0 THEN 1946 + LnMilli(n \div 7)
    ELSE 2398 + LnMilli(n \div 11)

(***************************************************************************)
(* Poses, ORUtils::SE3Pose                                                 *)
(***************************************************************************)
GetInvM(pose) == 0 - pose

\* pose_d->SetInvM(m); pose_d->Coerce()
SetInvMCoerce(m) == 0 - m

\* para_new = Tinc * para_old
ApplyDelta(para_old, delta) == delta + para_old

\* sqrt(stepLength) / 6 < terminationThreshold
HasConverged(step) ==
    (IF step < 0 THEN 0 - step ELSE step) < 6 * terminationThreshold

(***************************************************************************)
(* Averaged Hessians and gradients.  A matrix returned by ComputeGandH is   *)
(* known by the evaluation that produced it (eval, level) and by the        *)
(* logarithm of its determinant; scaling keeps the factor mul/div.  The     *)
(* zero matrix has mul = 0, a matrix of NaN has div = 0.                    *)
(***************************************************************************)
ZeroMatrix == [eval |-> 0, level |-> -1, lndet |-> 0, mul |-> 0, div |-> 1]

\* hessian_good[i] = hessian_new[i] / noValidPoints_new
Averaged(m, n) == [m EXCEPT !.div = m.div * n]

\* hessian_good[i] *= (float)noValidPoints_old / (float)noValidPointsMax
Normalized(m, nOld, nMax) ==
    [m EXCEPT !.mul = m.mul * nOld, !.div = m.div * nMax]

\* the values ORUtils::Cholesky(m, 6).Determinant() may return
DeterminantSet(m) ==
    IF m.div = 0 THEN {NaN}
    ELSE IF m.mul = 0 THEN {DetZero, NaN}
    ELSE {DetLn(m.lndet + 6 * LnMilli(m.mul) - 6 * LnMilli(m.div))}


(***************************************************************************)
(* Inputs of one TrackCamera call                                          *)
(***************************************************************************)
\* hierarchy depths TrackCamera is explored for
TrackLevelCounts == {2}

\* f_new of an evaluation with valid points, in units of 1e-4
ErrVals == {100, 900}

\* ln det (in 1/1000) of the Hessians ComputeGandH returns
HessVals == {-33000}

\* the steps ComputeDelta may return (ORUtils::Cholesky::Backsub)
StepVals == {0 - StepMag, 0, StepMag}

NoHist == [evalNo |-> 0, qualityWrites |-> 0, accepted |-> 0, rejected |-> 0,
           levelStartPose |-> 0, evalAt |-> 0, acceptedAt |-> 0,
           acceptedEval |-> 0, lastLevel |-> -1, branch |-> "none",
           frameValid |-> 0, written |-> <<>>,
           setupArgs |-> <<0, 0, 0, 0>>, setupDone |-> FALSE,
           hessianAtLoopEnd |-> ZeroMatrix]

(***************************************************************************)
(* TrackCamera                                                             *)
(***************************************************************************)
\* lines 158-173: locals initialised, level loop set to the coarsest level
TrackCameraBegin ==
    /\ pc = "idle"
    /\ pc' = "level"
    /\ f_old' = Big(10)
    /\ noValidPoints_old' = 0
    /\ hessian_good' = ZeroMatrix
    /\ nabla_good' = ZeroMatrix
    /\ levelId' = noHierarchyLevels - 1
    /\ \E valid \in 0 .. MaxPoints :
          hist' = [NoHist EXCEPT !.frameValid = valid]
    /\ UNCHANGED <<configVars, scheduleVars, iterationType, pose_d, poseQuality,
                   iterNo, approxInvPose, lastKnownGoodPose, f_new,
                   noValidPoints_new, hessian_new, nabla_new, lambda,
                   noValidPointsMax, det_norm, finalResidual, percentageInliers>>

\* lines 173-176: SetEvaluationParams(levelId); a level of type NONE is skipped
LevelSkip ==
    /\ pc = "level"
    /\ levelId >= 0
    /\ trackingRegime[levelId] = TRACKER_ITERATION_NONE
    /\ iterationType' = trackingRegime[levelId]
    /\ levelId' = levelId - 1
    /\ UNCHANGED <<configVars, scheduleVars, pose_d, poseQuality, pc, iterNo,
                   approxInvPose, lastKnownGoodPose, f_old, f_new,
                   noValidPoints_old, noValidPoints_new, hessian_good,
                   hessian_new, nabla_good, nabla_new, lambda, noValidPointsMax,
                   det_norm, finalResidual, percentageInliers, hist>>

\* lambda at the start of a level
LambdaInit == [num |-> 1, den |-> 1]

\* lines 175-186: SetEvaluationParams(levelId), then the level's start values
LevelStart ==
    /\ pc = "level"
    /\ levelId >= 0
    /\ trackingRegime[levelId] # TRACKER_ITERATION_NONE
    /\ iterationType' = trackingRegime[levelId]
    /\ approxInvPose' = GetInvM(pose_d)
    /\ lastKnownGoodPose' = pose_d
    /\ f_old' = Big(20)
    /\ noValidPoints_old' = 0
    /\ lambda' = LambdaInit
    /\ iterNo' = 0
    /\ pc' = "iter"
    /\ hist' = [hist EXCEPT !.accepted = 0, !.rejected = 0,
                            !.levelStartPose = pose_d, !.acceptedEval = 0,
                            !.acceptedAt = 0, !.lastLevel = levelId,
                            !.branch = "none"]
    /\ UNCHANGED <<configVars, scheduleVars, pose_d, poseQuality, levelId, f_new,
                   noValidPoints_new, hessian_good, hessian_new, nabla_good,
                   nabla_new, noValidPointsMax, det_norm, finalResidual,
                   percentageInliers>>

\* line 173: the level loop ends
LevelsDone ==
    /\ pc = "level"
    /\ levelId < 0
    /\ pc' = "assess"
    /\ UNCHANGED <<configVars, scheduleVars, iterationType, pose_d, poseQuality,
                   levelId, iterNo, approxInvPose, lastKnownGoodPose, f_old,
                   f_new, noValidPoints_old, noValidPoints_new, hessian_good,
                   hessian_new, nabla_good, nabla_new, lambda, noValidPointsMax,
                   det_norm, finalResidual, percentageInliers, hist>>

\* lines 186-189: noValidPoints_new = ComputeGandH(f_new, nabla_new, hessian_new, approxInvPose)
ComputeGandH(n, f, h) ==
    /\ pc = "iter"
    /\ iterNo < noIterationsPerLevel[levelId]
    /\ noValidPoints_new' = n
    /\ f_new' = Fin(f, 1)
    /\ hessian_new' = [eval |-> hist.evalNo + 1, level |-> levelId, lndet |-> h,
                       mul |-> 1, div |-> 1]
    /\ nabla_new' = [eval |-> hist.evalNo + 1, level |-> levelId, lndet |-> 0,
                     mul |-> 1, div |-> 1]
    /\ hist' = [hist EXCEPT !.evalNo = hist.evalNo + 1, !.evalAt = approxInvPose]
    /\ pc' = "check"
    /\ UNCHANGED <<configVars, scheduleVars, iterationType, pose_d, poseQuality,
                   levelId, iterNo, approxInvPose, lastKnownGoodPose, f_old,
                   noValidPoints_old, hessian_good, nabla_good, lambda,
                   noValidPointsMax, det_norm, finalResidual, percentageInliers>>

\* line 186: the level's iteration budget is used up
IterationsDone ==
    /\ pc = "iter"
    /\ iterNo >= noIterationsPerLevel[levelId]
    /\ levelId' = levelId - 1
    /\ pc' = "level"
    /\ UNCHANGED <<configVars, scheduleVars, iterationType, pose_d, poseQuality,
                   iterNo, approxInvPose, lastKnownGoodPose, f_old, f_new,
                   noValidPoints_old, noValidPoints_new, hessian_good,
                   hessian_new, nabla_good, nabla_new, lambda, noValidPointsMax,
                   det_norm, finalResidual, percentageInliers, hist>>

\* variant: f_new >= f_old reverts
RejectsOnTie == (noValidPoints_new <= 0) \/ ~LtF(f_new, f_old)

\* line 192
Rejects == (noValidPoints_new <= 0) \/ GtF(f_new, f_old)

\* variant: the reject branch divides
LambdaTimes10Swapped(l) ==
    IF l.num > 1 THEN [l EXCEPT !.num = l.num \div 10]
    ELSE [l EXCEPT !.den = l.den * 10]

\* lambda *= 10.0f
LambdaTimes10(l) ==
    IF l.den > 1 THEN [l EXCEPT !.den = l.den \div 10]
    ELSE [l EXCEPT !.num = l.num * 10]

\* lambda /= 10.0f
LambdaOver10(l) ==
    IF l.num > 1 THEN [l EXCEPT !.num = l.num \div 10]
    ELSE [l EXCEPT !.den = l.den * 10]

\* line 193: trackingState->pose_d->SetFrom(&lastKnownGoodPose)
RestoredPose == lastKnownGoodPose

\* variant: line 194 left out
RestoredInvPoseStale == approxInvPose

\* line 194: approxInvPose = trackingState->pose_d->GetInvM()
RestoredInvPose == GetInvM(RestoredPose)

\* lines 192-195: the error increased or nothing was valid: revert
Reject ==
    /\ pc = "check"
    /\ Rejects
    /\ pose_d' = RestoredPose
    /\ approxInvPose' = RestoredInvPose
    /\ lambda' = LambdaTimes10(lambda)
    /\ hist' = [hist EXCEPT !.rejected = hist.rejected + 1, !.branch = "reject"]
    /\ pc' = "solve"
    /\ UNCHANGED <<configVars, scheduleVars, iterationType, poseQuality, levelId,
                   iterNo, lastKnownGoodPose, f_old, f_new, noValidPoints_old,
                   noValidPoints_new, hessian_good, hessian_new, nabla_good,
                   nabla_new, noValidPointsMax, det_norm, finalResidual,
                   percentageInliers>>

\* variant: line 201 left out
AcceptedHessianKept == hessian_good

\* line 201: hessian_good[i] = hessian_new[i] / noValidPoints_new
AcceptedHessian == Averaged(hessian_new, noValidPoints_new)

\* lines 196-204
Accept ==
    /\ pc = "check"
    /\ ~Rejects
    /\ lastKnownGoodPose' = pose_d
    /\ f_old' = f_new
    /\ noValidPoints_old' = noValidPoints_new
    /\ hessian_good' = AcceptedHessian
    /\ nabla_good' = Averaged(nabla_new, noValidPoints_new)
    /\ lambda' = LambdaOver10(lambda)
    /\ hist' = [hist EXCEPT !.accepted = hist.accepted + 1, !.branch = "accept",
                            !.acceptedAt = hist.evalAt,
                            !.acceptedEval = hist.evalNo]
    /\ pc' = "solve"
    /\ UNCHANGED <<configVars, scheduleVars, iterationType, pose_d, poseQuality,
                   levelId, iterNo, approxInvPose, f_new, noValidPoints_new,
                   hessian_new, nabla_new, noValidPointsMax, det_norm,
                   finalResidual, percentageInliers>>

\* line 213: approxInvPose = trackingState->pose_d->GetInvM()
SteppedInvPose(newPose) == GetInvM(newPose)

\* lines 205-216: damped system, ComputeDelta, ApplyDelta, SetInvM, Coerce,
\* then break when HasConverged(step)
Solve(step) ==
    /\ pc = "solve"
    /\ LET newPose == SetInvMCoerce(ApplyDelta(approxInvPose, step))
       IN /\ pose_d' = newPose
          /\ approxInvPose' = SteppedInvPose(newPose)
    /\ IF HasConverged(step)
       THEN /\ levelId' = levelId - 1
            /\ pc' = "level"
            /\ iterNo' = iterNo
       ELSE /\ iterNo' = iterNo + 1
            /\ pc' = "iter"
            /\ levelId' = levelId
    /\ hist' = [hist EXCEPT !.branch = "none"]
    /\ UNCHANGED <<configVars, scheduleVars, iterationType, poseQuality,
                   lastKnownGoodPose, f_old, f_new, noValidPoints_old,
                   noValidPoints_new, hessian_good, hessian_new, nabla_good,
                   nabla_new, lambda, noValidPointsMax, det_norm, finalResidual,
                   percentageInliers>>


(***************************************************************************)
(* Quality assessment, lines 221-280                                       *)
(***************************************************************************)
\* line 269-271 and the literal of line 279
thresholdResidual == Fin(1, 4)
thresholdInliers == Fin(7, 10)
thresholdDet == DetLn(-36000)
inlierFloor == Fin(3, 10)

\* poseQuality values, in tenths
Good == 10
Uncertain == 5
Poor == 0

\* line 250: the iteration type the determinant test reads
AssessedType == iterationType

\* line 257: sqrt((nOld * f_old + (nMax - nOld) * distThresh[0]) / nMax), in 1/1000;
\* thresh0 is the numerator of distThresh[0] over den
FinalResidual(nOld, fOld, nMax, thresh0, den) ==
    IF nOld # 0 /\ fOld[1] # "fin" THEN Big(fOld[2] \div 2)
    ELSE LET sum == (IF nOld = 0 THEN 0 ELSE nOld * fOld[2] * den)
                    + (nMax - nOld) * thresh0
         IN IF nMax = 0
            THEN (IF sum > 0 THEN PosInf ELSE NaN)
            ELSE IF sum < 0 THEN NaN
            ELSE Fin(ISqrt((100 * sum) \div (nMax * den)), 1000)

\* lines 221-259
Assess ==
    /\ pc = "assess"
    /\ noValidPointsMax' = hist.frameValid
    /\ IF AssessedType = TRACKER_ITERATION_BOTH
       THEN /\ hessian_good' =
                 Normalized(hessian_good, noValidPoints_old, hist.frameValid)
            /\ det_norm' \in DeterminantSet(hessian_good')
       ELSE /\ hessian_good' = hessian_good
            /\ det_norm' = DetZero
    /\ finalResidual' =
          FinalResidual(noValidPoints_old, f_old, hist.frameValid,
                        distThresh[0], noHierarchyLevels - 1)
    /\ percentageInliers' = DivF(noValidPoints_old, hist.frameValid)
    /\ pc' = "classify"
    /\ hist' = [hist EXCEPT !.hessianAtLoopEnd = hessian_good]
    /\ UNCHANGED <<configVars, scheduleVars, iterationType, pose_d, poseQuality,
                   levelId, iterNo, approxInvPose, lastKnownGoodPose, f_old,
                   f_new, noValidPoints_old, noValidPoints_new, hessian_new,
                   nabla_good, nabla_new, lambda>>

qualityFrame == <<configVars, scheduleVars, iterationType, pose_d, levelId,
                  iterNo, approxInvPose, lastKnownGoodPose, f_old, f_new,
                  noValidPoints_old, noValidPoints_new, hessian_good,
                  hessian_new, nabla_good, nabla_new, lambda, noValidPointsMax,
                  det_norm, finalResidual, percentageInliers>>

\* trackingState->poseQuality = q
WriteQuality(q) ==
    /\ poseQuality' = q
    /\ hist' = [hist EXCEPT !.qualityWrites = hist.qualityWrites + 1,
                            !.written = Append(hist.written, q)]

\* variant: the former thresholds 0.2f and 0.8f of lines 264-265
BaseQualityFormerThresholds(res, inl) ==
    IF LtF(res, Fin(1, 5)) /\ GtF(inl, Fin(4, 5)) THEN Good
    ELSE IF LtF(res, Fin(1, 5)) \/ GtF(inl, Fin(4, 5)) THEN Uncertain
    ELSE Poor

\* lines 272-278
BaseQuality(res, inl) ==
    IF LtF(res, thresholdResidual) /\ GtF(inl, thresholdInliers) THEN Good
    ELSE IF LtF(res, thresholdResidual) \/ GtF(inl, thresholdInliers)
         THEN Uncertain
         ELSE Poor

Classify ==
    /\ pc = "classify"
    /\ WriteQuality(BaseQuality(finalResidual, percentageInliers))
    /\ pc' = "floor"
    /\ UNCHANGED qualityFrame

\* variant: the floor of line 279 at 0
FloorAtZero(inl) == LtF(inl, Fin(0, 1))

\* line 279
FloorApplies(inl) == LtF(inl, inlierFloor)

FloorOverride ==
    /\ pc = "floor"
    /\ IF FloorApplies(percentageInliers)
       THEN WriteQuality(Poor)
       ELSE UNCHANGED <<poseQuality, hist>>
    /\ pc' = "det"
    /\ UNCHANGED qualityFrame

\* variant: line 280 without its inner test
DetCapUnguarded(det, q) == LtF(det, thresholdDet)

\* line 280
DetCapApplies(det, q) == LtF(det, thresholdDet) /\ q > Uncertain

DetCap ==
    /\ pc = "det"
    /\ IF DetCapApplies(det_norm, poseQuality)
       THEN WriteQuality(Uncertain)
       ELSE UNCHANGED <<poseQuality, hist>>
    /\ pc' = "done"
    /\ UNCHANGED qualityFrame

(***************************************************************************)
(* Construction and the specifications                                     *)
(***************************************************************************)
\* what the caller left in trackingState->poseQuality
PriorQualities == {Poor, Good}

\* lines 10-24: the constructor, for L levels with the given regime
Constructed(L, regime) ==
    /\ noHierarchyLevels = L
    /\ trackingRegime = regime
    /\ noIterationsPerLevel =
          NewIterations([l \in Levels(L) |-> 0], L, L * 2, CtorIterFine)
    /\ distThresh =
          NewDistThresh([l \in Levels(L) |-> 0], L, CtorDistCoarse, CtorDistFine)
    /\ terminationThreshold = 1

\* TrackCamera at position at, with the accepted count, error and Hessian and
\* the iteration type as given
Locals(at, nOld, fOld, hGood, type) ==
    /\ pc = at
    /\ iterationType = type
    /\ pose_d = 0
    /\ levelId = 0 - 1
    /\ iterNo = 0
    /\ approxInvPose = 0
    /\ lastKnownGoodPose = 0
    /\ f_old = fOld
    /\ f_new = fOld
    /\ noValidPoints_old = nOld
    /\ noValidPoints_new = nOld
    /\ hessian_good = hGood
    /\ hessian_new = ZeroMatrix
    /\ nabla_good = ZeroMatrix
    /\ nabla_new = ZeroMatrix
    /\ lambda = LambdaInit
    /\ noValidPointsMax = 0
    /\ det_norm = DetZero
    /\ finalResidual = Fin(0, 1)
    /\ percentageInliers = Fin(0, 1)

\* no TrackCamera call is under way
Idle == Locals("idle", 0, Big(10), ZeroMatrix, TRACKER_ITERATION_NONE)

\* ---- SetupLevels on a constructed tracker
IterArgs == (0 - 2) .. MaxIterArg

DistArgs == {0 - 1, CtorDistFine, CtorDistCoarse}

InitSetup ==
    /\ \E L \in 2 .. MaxLevels :
          Constructed(L, [l \in Levels(L) |-> TRACKER_ITERATION_BOTH])
    /\ poseQuality = Good
    /\ Idle
    /\ \E c \in IterArgs, f \in IterArgs, dc \in DistArgs, df \in DistArgs :
          hist = [NoHist EXCEPT !.setupArgs = <<c, f, dc, df>>]

NextSetup ==
    \E c \in IterArgs, f \in IterArgs, dc \in DistArgs, df \in DistArgs :
        SetupLevels(c, f, dc, df)

SpecSetup == InitSetup /\ [][NextSetup]_vars

\* ---- one TrackCamera call
InitTrack ==
    /\ \E L \in TrackLevelCounts :
          /\ \E regime \in [Levels(L) -> IterationTypes] :
                /\ noHierarchyLevels = L
                /\ trackingRegime = regime
          /\ distThresh =
                NewDistThresh([l \in Levels(L) |-> 0], L, CtorDistCoarse,
                              CtorDistFine)
          /\ \E c \in 0 .. MaxTotalIter, f \in 0 .. MaxTotalIter :
                /\ c + f <= MaxTotalIter
                /\ noIterationsPerLevel =
                      NewIterations(
                          NewIterations([l \in Levels(L) |-> 0], L, L * 2,
                                        CtorIterFine),
                          L, c, f)
    /\ terminationThreshold = 1
    /\ poseQuality \in PriorQualities
    /\ Idle
    /\ hist = NoHist

NextTrack ==
    \/ TrackCameraBegin
    \/ LevelSkip
    \/ LevelStart
    \/ LevelsDone
    \/ \E n \in 0 .. hist.frameValid, f \in ErrVals, h \in HessVals :
          ComputeGandH(n, f, h)
    \/ IterationsDone
    \/ Reject
    \/ Accept
    \/ \E step \in StepVals : Solve(step)
    \/ Assess
    \/ Classify
    \/ FloorOverride
    \/ DetCap

Spec == InitTrack /\ [][NextTrack]_vars


\* ---- the quality assessment after a level loop that ended with given results
\* valid depth samples of the frame
QualityFrames == {0, 100}

\* accepted valid points of the last processed level
QualityCounts == {0, 20, 28, 30, 50, 70, 75, 90, 100}

\* accepted errors, in units of 1e-4
QualityErrs == {109, 180, 420, 700, 7920}

\* ln det of the accepted Hessian, in 1/1000
QualityHessVals == {4598, 0 - 8376, 0 - 8377, 0 - 64479}

InitQuality ==
    /\ Constructed(2, [l \in Levels(2) |-> TRACKER_ITERATION_BOTH])
    /\ poseQuality \in PriorQualities
    /\ \E nMax \in QualityFrames, nOld \in QualityCounts, f \in QualityErrs,
          h \in QualityHessVals,
          type \in {TRACKER_ITERATION_BOTH, TRACKER_ITERATION_ROTATION} :
          /\ nOld <= nMax
          /\ hist = [NoHist EXCEPT !.frameValid = nMax, !.lastLevel = 0,
                                   !.evalNo = 1,
                                   !.acceptedEval = IF nOld > 0 THEN 1 ELSE 0]
          /\ IF nOld > 0
             THEN Locals("assess", nOld, Fin(f, 1),
                         Averaged([eval |-> 1, level |-> 0, lndet |-> h,
                                   mul |-> 1, div |-> 1], nOld),
                         type)
             ELSE Locals("assess", 0, Big(20), ZeroMatrix, type)

NextQuality ==
    \/ Assess
    \/ Classify
    \/ FloorOverride
    \/ DetCap

SpecQuality == InitQuality /\ [][NextQuality]_vars


(***************************************************************************)
(* Properties                                                              *)
(***************************************************************************)
InLevel == pc \in {"iter", "check", "solve"}

AfterLoop == pc \in {"classify", "floor", "det", "done"}

RECURSIVE Pow10(_)
Pow10(k) == IF k <= 0 THEN 1 ELSE 10 * Pow10(k - 1)

\* C1: a rejecting iteration leaves, right after the reject branch, the pose
\* and approxInvPose at the last-known-good pose (the pose of the level's
\* most recent accepted evaluation, or the level's starting pose), and it
\* changes none of lastKnownGoodPose, f_old, noValidPoints_old,
\* hessian_good, nabla_good.
C1_RejectRestoresLastGoodPose ==
    [][(pc = "check" /\ pc' = "solve" /\ Rejects) =>
          /\ pose_d' = lastKnownGoodPose
          /\ approxInvPose' = GetInvM(lastKnownGoodPose)
          /\ IF hist.acceptedEval # 0
             THEN GetInvM(lastKnownGoodPose) = hist.acceptedAt
             ELSE lastKnownGoodPose = hist.levelStartPose
          /\ UNCHANGED <<lastKnownGoodPose, f_old, noValidPoints_old,
                         hessian_good, nabla_good>>]_vars

\* a reject that follows an accept of the same level and undoes a step
C1_Witness ==
    /\ pc = "solve"
    /\ hist.branch = "reject"
    /\ hist.acceptedEval # 0
    /\ approxInvPose # hist.evalAt
    /\ approxInvPose = hist.acceptedAt

\* C2: lambda is 1 when a level starts, a rejecting iteration multiplies it
\* by 10, an accepting one divides it by 10, nothing else changes it; so
\* after a accepted and r rejected iterations lambda = 10^(r-a), and it is
\* strictly positive.
C2_LambdaPolicy ==
    /\ [](InLevel =>
            /\ lambda.num > 0
            /\ lambda.den > 0
            /\ lambda.num * Pow10(hist.accepted)
                  = lambda.den * Pow10(hist.rejected))
    /\ [][IF pc = "level" /\ pc' = "iter"
            THEN lambda' = [num |-> 1, den |-> 1]
          ELSE IF pc = "check" /\ Rejects
            THEN lambda'.num * lambda.den = 10 * lambda.num * lambda'.den
          ELSE IF pc = "check"
            THEN 10 * lambda'.num * lambda.den = lambda.num * lambda'.den
          ELSE lambda' = lambda]_vars

\* both an accept and a reject have happened at the level
C2_Witness ==
    /\ InLevel
    /\ hist.accepted = 1
    /\ hist.rejected = 1
    /\ hist.branch = "reject"
    /\ lambda = [num |-> 1, den |-> 1]


\* the classification the specification gives for the three figures
ClaimedQuality(res, inl, det) ==
    LET lowResidual == LtF(res, thresholdResidual)
        manyInliers == GtF(inl, thresholdInliers)
        base == IF lowResidual /\ manyInliers THEN Good
                ELSE IF lowResidual # manyInliers THEN Uncertain
                ELSE Poor
        floored == IF LtF(inl, inlierFloor) THEN Poor ELSE base
    IN IF LtF(det, thresholdDet) /\ floored = Good THEN Uncertain ELSE floored

\* C3: the value TrackCamera leaves in poseQuality is Good / Uncertain / Poor
\* by residual < 0.25 and inliers > 0.7 (both / exactly one / none), then
\* inliers < 0.3 forces Poor, then detNorm < e^-36 lowers Good to Uncertain;
\* it is one of 0.0, 0.5, 1.0, and the five rows of the table come out as
\* Good, Uncertain, Poor, Uncertain, Poor.
C3_QualityClassification ==
    pc = "done" =>
       /\ poseQuality = ClaimedQuality(finalResidual, percentageInliers, det_norm)
       /\ poseQuality \in {Poor, Uncertain, Good}
       /\ (finalResidual = Fin(100, 1000) /\ percentageInliers = Fin(90, 100)
              /\ det_norm = DetLn(-23026)) => poseQuality = Good
       /\ (finalResidual = Fin(100, 1000) /\ percentageInliers = Fin(50, 100)
              /\ det_norm = DetLn(-23026)) => poseQuality = Uncertain
       /\ (finalResidual = Fin(400, 1000) /\ percentageInliers = Fin(20, 100)
              /\ det_norm = DetLn(-23026)) => poseQuality = Poor
       /\ (finalResidual = Fin(100, 1000) /\ percentageInliers = Fin(90, 100)
              /\ det_norm = DetLn(-92103)) => poseQuality = Uncertain
       /\ (finalResidual = Fin(100, 1000) /\ percentageInliers = Fin(20, 100))
              => poseQuality = Poor

\* the fourth row of the table: Good lowered to Uncertain by the determinant
C3_Witness ==
    /\ pc = "done"
    /\ finalResidual = Fin(100, 1000)
    /\ percentageInliers = Fin(90, 100)
    /\ det_norm = DetLn(-92103)
    /\ hist.written = <<Good, Uncertain>>

\* C4: when the level loop ends with noValidPoints_old = 0, whatever the
\* frame's count of valid depth samples and the level schedule, TrackCamera
\* runs on to its end and leaves poseQuality = 0.0.
C4_NoValidPointsGivesPoor ==
    (noValidPoints_old = 0 /\ pc \in {"assess", "classify", "floor", "det", "done"})
       => /\ pc = "done" => poseQuality = Poor
          /\ pc # "done" => ENABLED NextTrack

\* nothing accepted at the last processed level of a frame with valid depths:
\* the base class Uncertain is lowered to Poor
C4_Witness ==
    /\ pc = "done"
    /\ noValidPoints_old = 0
    /\ hist.evalNo > 0
    /\ hist.frameValid > 0
    /\ hist.written = <<Uncertain, Poor>>
    /\ poseQuality = Poor

\* C5, as claimed: poseQuality is written exactly once in a call, after the
\* last iteration of the last level, and no value other than the final
\* classification is ever stored in it.
C5_WrittenExactlyOnce ==
    /\ hist.qualityWrites <= 1
    /\ pc = "done" => hist.qualityWrites = 1
    /\ (hist.qualityWrites > 0 /\ AfterLoop) =>
          poseQuality = ClaimedQuality(finalResidual, percentageInliers, det_norm)

\* C5, amended: poseQuality is not written before the level loop has ended;
\* after it the base class is written, then at most one of the two overrides
\* writes again, so the field is written once or twice and may hold the base
\* class in between; at the end it holds the last value written.
C5_WrittenAfterLoopOnceOrTwice ==
    /\ ~AfterLoop => hist.qualityWrites = 0
    /\ hist.qualityWrites = Len(hist.written)
    /\ hist.qualityWrites <= 2
    /\ pc \in {"floor", "det", "done"} =>
          /\ hist.qualityWrites >= 1
          /\ hist.written[1] = BaseQuality(finalResidual, percentageInliers)
          /\ poseQuality = hist.written[Len(hist.written)]

\* a call that wrote the field twice
C5_Witness ==
    /\ pc = "done"
    /\ hist.evalNo > 0
    /\ hist.qualityWrites = 2
    /\ hist.written[1] # hist.written[2]

\* C6: SetupLevels leaves the iteration schedule unchanged when numIterCoarse
\* or numIterFine is negative, and the threshold schedule unchanged when
\* distThreshCoarse or distThreshFine is negative.
C6_UnsetEndpointKeepsSchedule ==
    [][(hist'.setupDone /\ ~hist.setupDone) =>
          /\ (hist.setupArgs[1] < 0 \/ hist.setupArgs[2] < 0)
                => UNCHANGED noIterationsPerLevel
          /\ (hist.setupArgs[3] < 0 \/ hist.setupArgs[4] < 0)
                => UNCHANGED distThresh]_vars

\* C7: for L >= 2 levels and itersCoarse > itersFine >= 0, SetupLevels gives
\* level L-1 itersCoarse, level 0 itersFine, counts that never increase from
\* coarse to fine, and, when L-1 divides the difference, a strictly monotone
\* schedule with that uniform step; (10, 2) over 5 levels is 10, 8, 6, 4, 2.
C7_IterationSchedule ==
    LET c == hist.setupArgs[1]
        f == hist.setupArgs[2]
        L == noHierarchyLevels
        n == noIterationsPerLevel
    IN (hist.setupDone /\ L >= 2 /\ c > f /\ f >= 0) =>
          /\ n[L - 1] = c
          /\ n[0] = f
          /\ \A l \in 0 .. (L - 2) : n[l] <= n[l + 1]
          /\ (c - f) % (L - 1) = 0 =>
                \A l \in 0 .. (L - 2) :
                    /\ n[l] < n[l + 1]
                    /\ n[l + 1] - n[l] = (c - f) \div (L - 1)
          /\ (L = 5 /\ c = 10 /\ f = 2) => n = [l \in 0 .. 4 |-> 2 + 2 * l]

\* SetupLevels(10, 2, ..) was applied to a hierarchy of 5 levels
C7_Witness ==
    /\ hist.setupDone
    /\ noHierarchyLevels = 5
    /\ hist.setupArgs[1] = 10
    /\ hist.setupArgs[2] = 2
    /\ noIterationsPerLevel[4] = 10
    /\ noIterationsPerLevel[2] = 6
    /\ noIterationsPerLevel[0] = 2


\* C8: the determinant term follows the iteration type of the last level
\* actually processed (the last level whose iteration loop was entered):
\* det_norm is the determinant of the normalized accepted Hessian iff that
\* type is BOTH, and 0 otherwise, whatever level types are NONE.  (Stated
\* for the calls that accepted an evaluation at that level.)
C8_DetFollowsLastProcessedLevel ==
    (AfterLoop /\ hist.lastLevel >= 0 /\ hist.acceptedEval # 0) =>
       IF trackingRegime[hist.lastLevel] = TRACKER_ITERATION_BOTH
       THEN det_norm \in DeterminantSet(
                Normalized(hist.hessianAtLoopEnd, noValidPoints_old,
                           noValidPointsMax))
       ELSE det_norm = DetZero

\* C9, as claimed: the Hessian, the count and the error that reach the
\* quality assessment come from one evaluation, the last accepted one of the
\* last processed level; a Hessian accepted at a coarser level never meets
\* the count or error of a finer level.  (Stated for the calls whose
\* Hessian enters det_norm.)
C9_StatisticsFromOneEvaluation ==
    (AfterLoop /\ hist.lastLevel >= 0 /\ hist.hessianAtLoopEnd.eval # 0
        /\ iterationType = TRACKER_ITERATION_BOTH) =>
       /\ hist.hessianAtLoopEnd.eval = hist.acceptedEval
       /\ hist.hessianAtLoopEnd.level = hist.lastLevel

\* C9, amended: if an evaluation was accepted at the last processed level,
\* the Hessian, the count and the error all come from the last accepted
\* evaluation of that level; if none was, the count is 0 and the error 1e20
\* (the level's start values) while the Hessian is still the one accepted at
\* a coarser level, or zero.
C9_StatisticsOfLastProcessedLevel ==
    (AfterLoop /\ hist.lastLevel >= 0) =>
       IF hist.acceptedEval # 0
       THEN /\ hist.hessianAtLoopEnd.eval = hist.acceptedEval
            /\ hist.hessianAtLoopEnd.level = hist.lastLevel
            /\ hist.hessianAtLoopEnd.div = noValidPoints_old
            /\ noValidPoints_old > 0
            /\ f_old[1] = "fin"
       ELSE /\ noValidPoints_old = 0
            /\ f_old = Big(20)
            /\ \/ hist.hessianAtLoopEnd = ZeroMatrix
               \/ hist.hessianAtLoopEnd.level > hist.lastLevel

\* accepted at the coarser level and again at the last processed level
C9_Witness ==
    /\ pc = "done"
    /\ hist.lastLevel = 0
    /\ hist.acceptedEval = 2
    /\ hist.hessianAtLoopEnd.eval = 2
    /\ noValidPoints_old > 0

\* C10: within a level f_old never increases (a tie is accepted); once an
\* evaluation has been accepted at the level, lastKnownGoodPose is the pose
\* at which the evaluation that produced f_old and noValidPoints_old was
\* computed; before that it is the pose the level started with.
C10_AcceptRejectLoop ==
    /\ [](InLevel =>
            IF hist.acceptedEval # 0
            THEN GetInvM(lastKnownGoodPose) = hist.acceptedAt
            ELSE lastKnownGoodPose = hist.levelStartPose)
    /\ [](pc = "check" /\ noValidPoints_new > 0 /\ f_new = f_old => ~Rejects)
    /\ [][(InLevel /\ InLevel') =>
            /\ ~GtF(f_old', f_old)
            /\ IF hist'.accepted > hist.accepted
               THEN /\ ~GtF(f_new, f_old)
                    /\ f_old' = f_new
                    /\ noValidPoints_old' = noValidPoints_new
                    /\ GetInvM(lastKnownGoodPose') = hist.evalAt
                    /\ hist'.acceptedAt = hist.evalAt
               ELSE /\ UNCHANGED <<f_old, noValidPoints_old, lastKnownGoodPose>>
                    /\ hist'.acceptedAt = hist.acceptedAt]_vars

\* a second evaluation of the level, computed at a moved pose, is accepted
C10_Witness ==
    /\ pc = "solve"
    /\ hist.branch = "accept"
    /\ hist.accepted = 2
    /\ lastKnownGoodPose # hist.levelStartPose
    /\ f_old = f_new

====
